---- MODULE Spec2Model ----
(***************************************************************************)
(* TextTutor (src/app.py): a Streamlit script that is re-executed from top *)
(* to bottom on every widget interaction.  st.session_state survives the   *)
(* reruns; everything else is rebuilt.  The module models                  *)
(*   - the session state machine driven by main() and handle_user_input(), *)
(*   - the upload pipeline get_pdf_text -> get_text_chunks ->              *)
(*     get_vector_store -> get_convo_chain,                                *)
(*   - the chunker (CharacterTextSplitter with separator "\n",             *)
(*     chunk_size 1000, chunk_overlap 200) as a pure function.             *)
(* A text is a sequence of one-character strings.                          *)
(***************************************************************************)
EXTENDS Integers, Sequences, FiniteSets, TLC

VARIABLES
    session_keys,   \* the keys present in st.session_state
    convo_chain,    \* st.session_state.convo_chain: None or Some(engine)
    chat_history,   \* st.session_state.chat_history (meaningful when its key is present)
    user_input,     \* value of the st.text_input widget (kept across reruns)
    pdf_files,      \* value of the st.file_uploader widget (kept across reruns)
    button,         \* st.button("Upload"): TRUE only in the rerun its click caused
    pc,             \* position of the script run: "idle" between runs
    raw_text,       \* main's local raw_text (also the chunker's input)
    text_chunks,    \* main's local text_chunks (also the chunker's output)
    output,         \* what the current script run has written with st.write
    engine_id,      \* number of engines built so far = identity of the newest engine
    retrieverCalls, \* calls made to the retriever
    generationCalls,\* requests sent to the generation service
    lastAsk,        \* the most recent call of the conversation chain
    asksOnEngine,   \* successful asks on the engine currently installed
    asksOnSubmit,   \* chain calls made since the last question submission
    discarded,      \* memory of the engine most recently replaced by an upload
    pre,            \* st.session_state as it was when the current run started
    run,            \* summary of the current (or last completed) script run
    trace,          \* summaries of the last completed runs, oldest first
    runs            \* number of script runs started

vars == <<session_keys, convo_chain, chat_history, user_input, pdf_files, button, pc,
          raw_text, text_chunks, output, engine_id, retrieverCalls, generationCalls,
          lastAsk, asksOnEngine, asksOnSubmit, discarded, pre, run, trace, runs>>

----------------------------------------------------------------------------
(* Bounds of the model *)

MaxRuns == 6        \* script runs per session
MaxUnits == 3       \* separator-delimited units in a chunker input
MaxFiles == 3       \* files in an extractor input

(* Program constants *)

chunk_size == 1000
chunk_overlap == 200
separator == "\n"

----------------------------------------------------------------------------
(* Text helpers: Python str operations on sequences of characters *)

Whitespace == {" ", "\n", "\t"}

\* str.strip(): drop leading and trailing whitespace
strip(t) ==
    IF \A i \in 1..Len(t) : t[i] \in Whitespace THEN <<>>
    ELSE LET lead == CHOOSE i \in 1..Len(t) :
                        /\ t[i] \notin Whitespace
                        /\ \A j \in 1..(i-1) : t[j] \in Whitespace
             trail == CHOOSE k \in 0..(Len(t)-1) :
                        /\ t[Len(t)-k] \notin Whitespace
                        /\ \A j \in 0..(k-1) : t[Len(t)-j] \in Whitespace
         IN SubSeq(t, lead, Len(t) - trail)

\* str.split(sep) for a one-character separator, from position start on
RECURSIVE split_from(_, _, _)
split_from(t, sep, start) ==
    LET rest == {i \in start..Len(t) : t[i] = sep}
    IN IF rest = {} THEN <<SubSeq(t, start, Len(t))>>
       ELSE LET p == CHOOSE i \in rest : \A j \in rest : i <= j
            IN <<SubSeq(t, start, p-1)>> \o split_from(t, sep, p+1)

\* the splitter drops the empty pieces of text.split(separator)
split_text_on(t, sep) == SelectSeq(split_from(t, sep, 1), LAMBDA s : s # <<>>)

\* separator.join(docs)
RECURSIVE join(_, _)
join(docs, sep) ==
    IF docs = <<>> THEN <<>>
    ELSE IF Len(docs) = 1 THEN docs[1]
    ELSE docs[1] \o <<sep>> \o join(Tail(docs), sep)

----------------------------------------------------------------------------
(* The chunker: CharacterTextSplitter.split_text as configured in          *)
(* get_text_chunks (separator "\n", chunk_size 1000, chunk_overlap 200,    *)
(* length_function len).                                                   *)

\* variant of _join_docs that forgets the strip
join_docs_no_strip(docs, sep) == join(docs, sep)

\* _join_docs: join with the separator and strip; the empty text stands for
\* Python's None (the caller appends the result only when it is not None).
join_docs(docs, sep) == strip(join(docs, sep))

\* separator length added when the window already holds more than n pieces
sep_len(current_doc, n) == IF Len(current_doc) > n THEN 1 ELSE 0

\* variant of the while loop that trims the window to the chunk size instead
\* of the overlap
RECURSIVE pop_window_to_chunk_size(_, _, _, _, _)
pop_window_to_chunk_size(current_doc, total, len_d, S, O) ==
    IF \/ total > S
       \/ (total + len_d + sep_len(current_doc, 0) > S /\ total > 0)
    THEN pop_window_to_chunk_size(Tail(current_doc),
                    total - (Len(Head(current_doc)) + sep_len(current_doc, 1)),
                    len_d, S, O)
    ELSE [current_doc |-> current_doc, total |-> total]

\* the inner while loop of _merge_splits: pop pieces off the front of the
\* window until it fits the overlap and leaves room for the next piece
RECURSIVE pop_window(_, _, _, _, _)
pop_window(current_doc, total, len_d, S, O) ==
    IF \/ total > O
       \/ (total + len_d + sep_len(current_doc, 0) > S /\ total > 0)
    THEN pop_window(Tail(current_doc),
                    total - (Len(Head(current_doc)) + sep_len(current_doc, 1)),
                    len_d, S, O)
    ELSE [current_doc |-> current_doc, total |-> total]

\* the for loop of _merge_splits over splits[k..], then the final flush
RECURSIVE merge_from(_, _, _, _, _, _, _, _)
merge_from(splits, k, docs, current_doc, total, sep, S, O) ==
    IF k > Len(splits)
    THEN LET doc == join_docs(current_doc, sep)
         IN IF doc # <<>> THEN Append(docs, doc) ELSE docs
    ELSE LET d == splits[k]
             len_d == Len(d)
             over == total + len_d + sep_len(current_doc, 0) > S
             flush == over /\ Len(current_doc) > 0
             doc == join_docs(current_doc, sep)
             docs1 == IF flush /\ doc # <<>> THEN Append(docs, doc) ELSE docs
             w == IF flush THEN pop_window(current_doc, total, len_d, S, O)
                  ELSE [current_doc |-> current_doc, total |-> total]
             cur1 == Append(w.current_doc, d)
         IN merge_from(splits, k + 1, docs1, cur1,
                       w.total + len_d + sep_len(cur1, 1), sep, S, O)

merge_splits(splits, sep, S, O) == merge_from(splits, 1, <<>>, <<>>, 0, sep, S, O)

\* variant of split_text that cuts every piece down to the chunk size
split_text_truncating(text, sep, S, O) ==
    LET ps == split_text_on(text, sep)
    IN merge_splits([i \in 1..Len(ps) |->
                        SubSeq(ps[i], 1, IF Len(ps[i]) <= S THEN Len(ps[i]) ELSE S)],
                    sep, S, O)

\* CharacterTextSplitter.split_text
split_text(text, sep, S, O) == merge_splits(split_text_on(text, sep), sep, S, O)

\* get_text_chunks(raw_text)
get_text_chunks(text) == split_text(text, separator, chunk_size, chunk_overlap)

----------------------------------------------------------------------------
(* Uploaded documents.  A PDF is a sequence of pages; PdfReader raises on  *)
(* a file it cannot read.                                                  *)

Readable(pdf) == pdf # "broken.pdf"

Pages(pdf) ==
    CASE pdf = "notes.pdf" -> << <<"a", "b", "\n">>, <<"c">> >>
      [] pdf = "book.pdf"  -> << <<"d", " ">>, <<>>, <<"e">> >>
      [] pdf = "scan.pdf"  -> << <<>> >>
      [] OTHER             -> <<>>

\* page.extract_text()
extract_text(page) == page

FileSelections ==
    { <<>>, <<"notes.pdf">>, <<"scan.pdf">>, <<"broken.pdf">>, <<"book.pdf", "notes.pdf">> }

\* variant of the page loop that puts each page in front of the text so far
RECURSIVE concat_pages_prepending(_)
concat_pages_prepending(pages) ==
    IF pages = <<>> THEN <<>>
    ELSE concat_pages_prepending(Tail(pages)) \o extract_text(Head(pages))

\* the loop over pdf_reader.pages: text += page.extract_text()
RECURSIVE concat_pages(_)
concat_pages(pages) ==
    IF pages = <<>> THEN <<>>
    ELSE extract_text(Head(pages)) \o concat_pages(Tail(pages))

\* get_pdf_text(pdf_files): text of every page of every file, in order
RECURSIVE get_pdf_text(_)
get_pdf_text(files) ==
    IF files = <<>> THEN <<>>
    ELSE concat_pages(Pages(Head(files))) \o get_pdf_text(Tail(files))

\* PdfReader(pdf) raises for some file of the selection
PdfReaderRaises(files) == \E i \in 1..Len(files) : ~Readable(files[i])

\* get_vector_store(text_chunks): the index over the chunks (the embedding
\* vectors are a function of the chunk texts and are not represented)
get_vector_store(chunks) == [texts |-> chunks]

\* FAISS.from_texts raises on an empty list of texts, and whenever the
\* embedding backend fails
IndexBuildRaises(chunks, backend_ok) == chunks = <<>> \/ ~backend_ok

\* variant of get_convo_chain that keeps one memory object across engines
get_convo_chain_shared_memory(vector_store) ==
    [vector_store |-> vector_store,
     memory |-> IF convo_chain = <<>> THEN <<>> ELSE convo_chain[1].memory]

\* variant of get_convo_chain that builds the chain over an empty store
get_convo_chain_empty_store(vector_store) ==
    [vector_store |-> get_vector_store(<<>>), memory |-> <<>>]

\* get_convo_chain(vector_store): a chain over the store's retriever with a
\* fresh, empty ConversationBufferMemory
get_convo_chain(vector_store) == [vector_store |-> vector_store, memory |-> <<>>]

----------------------------------------------------------------------------
(* The conversation chain (ConversationalRetrievalChain with a             *)
(* ConversationBufferMemory, return_messages=True)                         *)

None == <<>>
Some(engine) == <<engine>>

HumanMessage(content) == [type |-> "human", content |-> content]
AIMessage(content) == [type |-> "ai", content |-> content]

\* variant of save_context that records the answer without its question
save_context_answer_only(memory, question, answer) ==
    memory \o <<AIMessage(answer)>>

\* memory.save_context: the turn is appended as a human and an ai message
save_context(memory, question, answer) ==
    memory \o <<HumanMessage(question), AIMessage(answer)>>

\* variant of chain_request that sends the question without the history
chain_request_no_history(engine, question) ==
    [question |-> question, chat_history |-> <<>>,
     vector_store |-> engine.vector_store]

\* what the chain sends out for a question: the retriever is queried on the
\* engine's index and the generation request carries the memory as history
chain_request(engine, question) ==
    [question |-> question, chat_history |-> engine.memory,
     vector_store |-> engine.vector_store]

\* the engine after convo_chain({'question': q}) returned answer a
chain_call(engine, question, answer) ==
    [engine EXCEPT !.memory = save_context(@, question, answer)]

\* variant of chain_raise that has recorded the question before the call
chain_raise_half_turn(engine, question) ==
    [engine EXCEPT !.memory = @ \o <<HumanMessage(question)>>]

\* the engine after convo_chain({'question': q}) raised: the exception leaves
\* the chain before save_context, so the memory holds what it held
chain_raise(engine, question) == engine

\* variant of response_chat_history that returns the history as it was sent
\* with the request, without the turn just saved
response_chat_history_before_call(engine_after) ==
    SubSeq(engine_after.memory, 1, Len(engine_after.memory) - 2)

\* response['chat_history']: the memory's own message list, which already
\* holds the turn just saved
response_chat_history(engine_after) == engine_after.memory

\* variant of render that starts with the bot template
render_bot_first(history) ==
    [i \in 1..Len(history) |->
        [template |-> IF (i - 1) % 2 = 0 THEN "bot" ELSE "user",
         msg |-> history[i].content]]

\* the rendering loop of handle_user_input: even index user, odd index bot
render(history) ==
    [i \in 1..Len(history) |->
        [template |-> IF (i - 1) % 2 = 0 THEN "user" ELSE "bot",
         msg |-> history[i].content]]

UploadPrompt == <<[template |-> "text", msg |-> "Please upload a PDF first!"]>>

----------------------------------------------------------------------------
(* The session: one script run per user interaction                        *)

Questions == {"q1", "q2"}
Answers == {"a1", "a2"}

NoAsk == [engine |-> 0, question |-> "", chat_history |-> <<>>,
          outcome |-> "none", answer |-> ""]

Snapshot == [keys |-> session_keys, convo_chain |-> convo_chain,
             chat_history |-> chat_history, engine_id |-> engine_id]

NewRun(trigger) == [trigger |-> trigger, ask |-> "none", question |-> "",
                    answer |-> "", upload |-> "none"]

\* the summaries of the last three completed runs
Record(r) == LET t == Append(trace, r)
             IN IF Len(t) > 3 THEN Tail(t) ELSE t

\* variant of the statement order of main that processes the sidebar (and the
\* upload) before the question
StepAfter_upload_first(step) ==
    CASE step = "start"   -> "init"
      [] step = "init"    -> "sidebar"
      [] step = "sidebar" -> "input"
      [] OTHER            -> "idle"

\* the statement order of main: the question (lines 78-82), the session-state
\* initialisation (lines 89-93), the sidebar with the upload (lines 98-119)
StepAfter(step) ==
    CASE step = "start"   -> "input"
      [] step = "input"   -> "init"
      [] step = "init"    -> "sidebar"
      [] OTHER            -> "idle"

SessionInit ==
    /\ session_keys = {}
    /\ convo_chain = None
    /\ chat_history = <<>>
    /\ user_input = ""
    /\ pdf_files = <<>>
    /\ button = FALSE
    /\ output = <<>>
    /\ engine_id = 0
    /\ retrieverCalls = 0
    /\ generationCalls = 0
    /\ lastAsk = NoAsk
    /\ asksOnEngine = 0
    /\ asksOnSubmit = 0
    /\ discarded = <<>>
    /\ pre = [keys |-> {}, convo_chain |-> None, chat_history |-> <<>>, engine_id |-> 0]
    /\ run = NewRun("open")
    /\ trace = <<>>
    /\ runs = 1

\* the browser opens the page: the first script run is about to start
Init ==
    /\ SessionInit
    /\ pc = StepAfter("start")
    /\ raw_text = <<>>
    /\ text_chunks = <<>>

\* a widget interaction starts a rerun of the script
StartRun(trigger) ==
    /\ pc = "idle"
    /\ runs < MaxRuns
    /\ runs' = runs + 1
    /\ pc' = StepAfter("start")
    /\ output' = <<>>
    /\ raw_text' = <<>>
    /\ text_chunks' = <<>>
    /\ pre' = Snapshot
    /\ run' = NewRun(trigger)
    /\ UNCHANGED <<session_keys, convo_chain, chat_history, engine_id, retrieverCalls,
                   generationCalls, lastAsk, asksOnEngine, discarded, trace>>

\* the user enters a new value in the question box (st.text_input)
SubmitQuestion ==
    /\ \E q \in Questions \cup {""} :
          /\ q # user_input
          /\ user_input' = q
    /\ StartRun("question")
    /\ button' = FALSE
    /\ asksOnSubmit' = 0
    /\ UNCHANGED pdf_files

\* the user changes the selection of the st.file_uploader
ChangeFiles ==
    /\ \E f \in FileSelections :
          /\ f # pdf_files
          /\ pdf_files' = f
    /\ StartRun("files")
    /\ button' = FALSE
    /\ UNCHANGED <<user_input, asksOnSubmit>>

\* the user clicks st.button("Upload")
ClickUpload ==
    /\ StartRun("upload")
    /\ button' = TRUE
    /\ UNCHANGED <<user_input, pdf_files, asksOnSubmit>>

\* the outcome of a generation request: an answer, or the service fails
GenerationError == "GenerationError"
Outcomes == Answers \cup {GenerationError}

SessionState == [keys |-> session_keys, convo_chain |-> convo_chain,
                 chat_history |-> chat_history]

\* handle_user_input, line 60: no engine, only the prompt is written
prompt_branch(ss) ==
    [keys |-> ss.keys, convo_chain |-> ss.convo_chain, chat_history |-> ss.chat_history,
     written |-> UploadPrompt, called |-> FALSE, raised |-> FALSE, ask |-> "prompt",
     request |-> <<>>]

\* handle_user_input, lines 62-70: the chain is called on the question; when
\* the call raises, line 65 and the rendering are not reached
ask_branch(ss, engine, question, gen) ==
    IF gen = GenerationError
    THEN [keys |-> ss.keys, convo_chain |-> Some(chain_raise(engine, question)),
          chat_history |-> ss.chat_history, written |-> <<>>, called |-> TRUE,
          raised |-> TRUE, ask |-> "fail", request |-> chain_request(engine, question)]
    ELSE LET after == chain_call(engine, question, gen)
         IN [keys |-> ss.keys \cup {"chat_history"}, convo_chain |-> Some(after),
             chat_history |-> response_chat_history(after),
             written |-> render(response_chat_history(after)), called |-> TRUE,
             raised |-> FALSE, ask |-> "ok", request |-> chain_request(engine, question)]

\* variant of handle_user_input that asks a chain over no documents when the
\* session has no engine
handle_user_input_asks_anyway(ss, question, gen) ==
    IF "convo_chain" \notin ss.keys
    THEN [keys |-> ss.keys, convo_chain |-> ss.convo_chain,
          chat_history |-> ss.chat_history, written |-> <<>>, called |-> FALSE,
          raised |-> TRUE, ask |-> "error", request |-> <<>>]
    ELSE ask_branch(ss,
                    IF ss.convo_chain = None
                    THEN get_convo_chain(get_vector_store(<<>>))
                    ELSE ss.convo_chain[1],
                    question, gen)

\* handle_user_input(user_input) on session state ss
handle_user_input(ss, question, gen) ==
    IF "convo_chain" \notin ss.keys
    THEN \* st.session_state.convo_chain raises AttributeError
         [keys |-> ss.keys, convo_chain |-> ss.convo_chain,
          chat_history |-> ss.chat_history, written |-> <<>>, called |-> FALSE,
          raised |-> TRUE, ask |-> "error", request |-> <<>>]
    ELSE IF ss.convo_chain = None
    THEN prompt_branch(ss)
    ELSE ask_branch(ss, ss.convo_chain[1], question, gen)

\* main, lines 78-82: handle_user_input runs only when the box holds text
HandleInput ==
    /\ pc = "input"
    /\ UNCHANGED <<user_input, pdf_files, button, raw_text, text_chunks,
                   engine_id, discarded, pre, runs>>
    /\ IF user_input = ""
       THEN /\ pc' = StepAfter("input")
            /\ trace' = IF pc' = "idle" THEN Record(run) ELSE trace
            /\ UNCHANGED <<session_keys, convo_chain, chat_history, output,
                           retrieverCalls, generationCalls, lastAsk, asksOnEngine,
                           asksOnSubmit, run>>
       ELSE \E gen \in Outcomes :
              LET r == handle_user_input(SessionState, user_input, gen)
                  calls == IF r.called THEN 1 ELSE 0
              IN /\ session_keys' = r.keys
                 /\ convo_chain' = r.convo_chain
                 /\ chat_history' = r.chat_history
                 /\ output' = output \o r.written
                 /\ retrieverCalls' = retrieverCalls + calls
                 /\ generationCalls' = generationCalls + calls
                 /\ asksOnSubmit' = asksOnSubmit + calls
                 /\ asksOnEngine' = asksOnEngine + (IF r.ask = "ok" THEN 1 ELSE 0)
                 /\ lastAsk' = IF r.called
                               THEN [engine |-> engine_id,
                                     question |-> r.request.question,
                                     chat_history |-> r.request.chat_history,
                                     outcome |-> r.ask,
                                     answer |-> IF r.ask = "ok" THEN gen ELSE ""]
                               ELSE lastAsk
                 /\ run' = [run EXCEPT !.ask = r.ask, !.question = user_input,
                                       !.answer = IF r.ask = "ok" THEN gen ELSE ""]
                 \* an uncaught exception ends the script run
                 /\ pc' = IF r.raised THEN "idle" ELSE StepAfter("input")
                 /\ trace' = IF pc' = "idle" THEN Record(run') ELSE trace

\* variant of lines 89-93 that initialises nothing
init_session_state_missing(ss) == ss

\* lines 89-93 on session state ss: "streamlit variable consistency"
init_session_state(ss) ==
    LET keys1 == ss.keys \cup {"convo_chain"}
        chain1 == IF "convo_chain" \notin ss.keys THEN None ELSE ss.convo_chain
    IN [keys |-> keys1,
        \* line 93 assigns convo_chain, not chat_history
        convo_chain |-> IF "chat_history" \notin keys1 THEN None ELSE chain1,
        chat_history |-> ss.chat_history]

\* main, lines 89-93
InitSessionState ==
    /\ pc = "init"
    /\ LET ss == init_session_state(SessionState)
       IN /\ session_keys' = ss.keys
          /\ convo_chain' = ss.convo_chain
          /\ chat_history' = ss.chat_history
    /\ asksOnEngine' = IF convo_chain' = None THEN 0 ELSE asksOnEngine
    /\ pc' = StepAfter("init")
    /\ trace' = IF pc' = "idle" THEN Record(run) ELSE trace
    /\ UNCHANGED <<user_input, pdf_files, button, raw_text, text_chunks,
                   output, engine_id, retrieverCalls, generationCalls, lastAsk,
                   asksOnSubmit, discarded, pre, run, runs>>

\* main, lines 98-119: the sidebar and the upload pipeline
Sidebar ==
    /\ pc = "sidebar"
    /\ UNCHANGED <<session_keys, chat_history, user_input, pdf_files, button, output,
                   retrieverCalls, generationCalls, lastAsk, asksOnSubmit, pre, runs>>
    /\ IF ~button
       THEN /\ run' = run
            /\ UNCHANGED <<convo_chain, raw_text, text_chunks, engine_id, asksOnEngine,
                           discarded>>
       ELSE IF PdfReaderRaises(pdf_files)
       THEN \* get_pdf_text raises
            /\ run' = [run EXCEPT !.upload = "extract_failed"]
            /\ UNCHANGED <<convo_chain, raw_text, text_chunks, engine_id, asksOnEngine,
                           discarded>>
       ELSE /\ raw_text' = get_pdf_text(pdf_files)
            /\ text_chunks' = get_text_chunks(raw_text')
            /\ \E backend_ok \in BOOLEAN :
                  IF IndexBuildRaises(text_chunks', backend_ok)
                  THEN \* get_vector_store raises
                       /\ run' = [run EXCEPT !.upload = "index_failed"]
                       /\ UNCHANGED <<convo_chain, engine_id, asksOnEngine, discarded>>
                  ELSE /\ convo_chain' = Some(get_convo_chain(get_vector_store(text_chunks')))
                       /\ engine_id' = engine_id + 1
                       /\ asksOnEngine' = 0
                       /\ discarded' = IF convo_chain = None THEN <<>>
                                       ELSE convo_chain[1].memory
                       /\ run' = [run EXCEPT !.upload = "ok"]
    \* an uncaught exception of the pipeline ends the script run
    /\ pc' = IF run'.upload \in {"extract_failed", "index_failed"} THEN "idle"
             ELSE StepAfter("sidebar")
    /\ trace' = IF pc' = "idle" THEN Record(run') ELSE trace

Next ==
    \/ SubmitQuestion
    \/ ChangeFiles
    \/ ClickUpload
    \/ HandleInput
    \/ InitSessionState
    \/ Sidebar

Spec == Init /\ [][Next]_vars

----------------------------------------------------------------------------
(* The chunker alone, on a bounded family of inputs: up to MaxUnits units  *)
(* joined by the separator.  A unit of length n is n letters, or a space   *)
(* followed by n-1 letters, or n spaces; the k-th unit uses the k-th       *)
(* letter, so text carried over between chunks is recognisable.            *)

UnitLengths == {0, 150, 700, 2500}
UnitKinds == {"plain", "lead", "blank"}
KindsOf(len) ==
    CASE len = 0    -> {"plain"}
      [] len = 150  -> {"plain", "blank"}
      [] len = 700  -> {"plain", "lead"}
      [] OTHER      -> UnitKinds
Letters == <<"a", "b", "c", "d", "e">>

Units == {u \in [len : UnitLengths, kind : UnitKinds] : u.kind \in KindsOf(u.len)}

UnitText(u, k) ==
    [i \in 1..u.len |->
        IF u.kind = "blank" \/ (u.kind = "lead" /\ i = 1) THEN " " ELSE Letters[k]]

RECURSIVE InputText(_, _)
InputText(us, k) ==
    IF k > Len(us) THEN <<>>
    ELSE IF k = Len(us) THEN UnitText(us[k], k)
    ELSE UnitText(us[k], k) \o <<separator>> \o InputText(us, k + 1)

ChunkerInputs ==
    UNION { {InputText(us, 1) : us \in [1..n -> Units]} : n \in 1..MaxUnits }

ChunkerInit ==
    /\ SessionInit
    /\ pc = "chunker"
    /\ raw_text \in ChunkerInputs
    /\ text_chunks = <<>>

\* text_chunks = get_text_chunks(raw_text)
Chunk ==
    /\ pc = "chunker"
    /\ text_chunks' = get_text_chunks(raw_text)
    /\ pc' = "chunked"
    /\ UNCHANGED <<session_keys, convo_chain, chat_history, user_input, pdf_files, button,
                   raw_text, output, engine_id, retrieverCalls, generationCalls, lastAsk,
                   asksOnEngine, asksOnSubmit, discarded, pre, run, trace, runs>>

ChunkerNext == Chunk

SpecChunker == ChunkerInit /\ [][ChunkerNext]_vars

----------------------------------------------------------------------------
(* Properties of the session                                               *)

Ready == convo_chain # None
Memory == convo_chain[1].memory
Turn(question, answer) == <<HumanMessage(question), AIMessage(answer)>>

\* C1: once an upload has made the session READY, no step of any later run
\* returns it to EMPTY, and the engine is replaced only by a successful upload.
C1_ReadyNeverReturnsToEmpty ==
    [][Ready => /\ convo_chain' # None
                /\ (engine_id' # engine_id => (pc = "sidebar" /\ run'.upload = "ok"))]_vars

\* C2: a question handled while the session is EMPTY calls neither the
\* retriever nor the generation service, leaves convo_chain and chat_history
\* as they were, and writes only the upload prompt.
C2_EmptyAskIsGuardedNoOp ==
    [][(pc = "input" /\ user_input # "" /\ convo_chain = None)
         => /\ retrieverCalls' = retrieverCalls
            /\ generationCalls' = generationCalls
            /\ lastAsk' = lastAsk
            /\ convo_chain' = convo_chain
            /\ chat_history' = chat_history
            /\ session_keys' = session_keys
            /\ output' = UploadPrompt]_vars

\* a question has just been handled in the EMPTY state
C2_Witness ==
    /\ pc = "init"
    /\ run.ask = "prompt"
    /\ run.question \in Questions
    /\ convo_chain = None
    /\ output = UploadPrompt

\* C3: when an upload fails at extraction, chunking or index build, the
\* session still holds the engine (index and history) it held before the
\* Upload click, also when no question has been answered yet.
C3_FailedUploadKeepsEngine ==
    (/\ pc = "idle"
     /\ run.upload \in {"extract_failed", "index_failed"}
     /\ pre.convo_chain # None)
        => /\ convo_chain = pre.convo_chain
           /\ engine_id = pre.engine_id

\* C4: a successful ask appends exactly the turn (question, answer) to the
\* engine's history and keeps the earlier turns in place; no other step
\* changes the history of an engine.
C4_OnlyAskAppendsOneTurn ==
    [][/\ (pc = "input" /\ run'.ask = "ok")
            => /\ Ready /\ convo_chain' # None /\ engine_id' = engine_id
               /\ convo_chain'[1].memory = Memory \o Turn(user_input, run'.answer)
               /\ convo_chain'[1].vector_store = convo_chain[1].vector_store
       /\ (Ready /\ convo_chain' # None /\ engine_id' = engine_id
              /\ ~(pc = "input" /\ run'.ask = "ok"))
            => convo_chain'[1].memory = Memory]_vars

\* an ask has just succeeded on an engine that already held a turn
C4_Witness ==
    /\ pc = "init"
    /\ run.ask = "ok"
    /\ Ready
    /\ Len(Memory) = 4
    /\ SubSeq(Memory, 3, 4) = Turn(run.question, run.answer)

\* C5: when the generation call of a question submission fails, the engine's
\* history and the stored chat_history are unchanged and the session stays
\* READY with the same engine.
C5_FailedAskChangesNothing ==
    [][(pc = "input" /\ run'.ask = "fail")
         => /\ Ready
            /\ convo_chain' = convo_chain
            /\ chat_history' = chat_history
            /\ session_keys' = session_keys
            /\ engine_id' = engine_id
            /\ pc' = "idle"]_vars

\* a generation call has just failed on an engine that holds a turn
C5_Witness ==
    /\ pc = "idle"
    /\ run.ask = "fail"
    /\ lastAsk.outcome = "fail"
    /\ Ready
    /\ Len(Memory) = 2
    /\ chat_history = Memory

\* C6: the chain is called once per question submission: a rerun caused by an
\* Upload click or a change of the file selection does not call it again
\* for the question still held by the box.
C6_AskOncePerSubmission ==
    /\ asksOnSubmit <= 1
    /\ (run.trigger \in {"upload", "files"} => run.ask \notin {"ok", "fail"})

\* C7: the engine installed by a second successful upload starts with an empty
\* history although the first engine held turns: its first question goes out
\* with no history and the history returned for rendering is that one turn.
C7_ReuploadStartsEmptyHistory ==
    /\ (pc = "idle" /\ run.upload = "ok") => (Ready /\ Memory = <<>>)
    /\ (/\ engine_id >= 2
        /\ Ready
        /\ asksOnEngine = 1
        /\ lastAsk.engine = engine_id
        /\ lastAsk.outcome = "ok")
          => /\ lastAsk.chat_history = <<>>
             /\ chat_history = Turn(lastAsk.question, lastAsk.answer)
             /\ Memory = chat_history
             /\ (pc = "init" /\ run.ask = "ok")
                   => output = render(Turn(lastAsk.question, lastAsk.answer))

\* the second engine has just answered its first question, and the engine it
\* replaced held turns
C7_Witness ==
    /\ engine_id = 2
    /\ discarded # <<>>
    /\ Ready
    /\ pc = "init"
    /\ run.ask = "ok"
    /\ asksOnEngine = 1
    /\ lastAsk.engine = 2

\* the last three completed runs were a successful upload and then two
\* answered question submissions
UploadThenTwoAsks ==
    /\ pc = "idle"
    /\ Len(trace) = 3
    /\ trace[1].upload = "ok"
    /\ trace[2].trigger = "question" /\ trace[2].ask = "ok"
    /\ trace[3].trigger = "question" /\ trace[3].ask = "ok"

\* C8: after a successful upload and two answered submissions q1 then q2 the
\* history is exactly (q1,a1),(q2,a2) in that order, and the request for q2
\* carried q1 and a1 as history.
C8_TwoTurnsInCallOrder ==
    UploadThenTwoAsks
      => /\ Ready
         /\ Memory = Turn(trace[2].question, trace[2].answer)
                       \o Turn(trace[3].question, trace[3].answer)
         /\ lastAsk.question = trace[3].question
         /\ lastAsk.chat_history = Turn(trace[2].question, trace[2].answer)

C8_Witness ==
    /\ UploadThenTwoAsks
    /\ trace[2].question = "q1" /\ trace[2].answer = "a1"
    /\ trace[3].question = "q2" /\ trace[3].answer = "a2"

\* C9: an engine enters the session only in the last assignment of an upload
\* whose extraction, chunking and index build all succeeded, and it owns the
\* index built from the files of that upload.
C9_EngineOnlyFromSuccessfulUpload ==
    [][(convo_chain' # None /\ (convo_chain = None \/ engine_id' # engine_id))
         => /\ pc = "sidebar" /\ button
            /\ \A i \in 1..Len(pdf_files) : Readable(pdf_files[i])
            /\ raw_text' = get_pdf_text(pdf_files)
            /\ text_chunks' = get_text_chunks(raw_text')
            /\ text_chunks' # <<>>
            /\ convo_chain'[1].vector_store.texts = text_chunks'
            /\ engine_id' = engine_id + 1
            /\ run'.upload = "ok"
            /\ pc' = "idle"]_vars

\* an upload has just taken the session from EMPTY to READY
C9_Witness ==
    /\ pc = "idle"
    /\ run.upload = "ok"
    /\ pre.convo_chain = None
    /\ Ready
    /\ convo_chain[1].vector_store.texts = text_chunks

----------------------------------------------------------------------------
(* Properties of the chunker                                               *)

NoSeparator(text) == \A i \in 1..Len(text) : text[i] # separator

Example2500 == pc = "chunked" /\ Len(raw_text) = 2500 /\ NoSeparator(raw_text)

\* C10 as stated: a 2500-character input without separator gives 3 chunks of
\* 1000, 1000 and 700 characters, each overlapping its predecessor by 200.
C10_ThreeOverlappingChunks ==
    Example2500
      => /\ Len(text_chunks) = 3
         /\ Len(text_chunks[1]) = 1000
         /\ Len(text_chunks[2]) = 1000
         /\ Len(text_chunks[3]) = 700
         /\ SubSeq(text_chunks[2], 1, 200) = SubSeq(text_chunks[1], 801, 1000)
         /\ SubSeq(text_chunks[3], 1, 200) = SubSeq(text_chunks[2], 801, 1000)

\* C10 amended: a 2500-character input without separator is not split: the
\* chunker returns the whole input, less leading and trailing whitespace, as
\* one chunk, and no chunk when the input is all whitespace.
C10_OneUnsplitChunk ==
    Example2500
      => /\ Len(text_chunks) <= 1
         /\ (raw_text[1] \notin Whitespace /\ raw_text[2500] \notin Whitespace)
               => text_chunks = <<raw_text>>
         /\ (\A i \in 1..2500 : raw_text[i] \in Whitespace) <=> text_chunks = <<>>
         /\ text_chunks # <<>> => text_chunks[1] = strip(raw_text)

\* the 2500-character input came back as one chunk of 2500 characters
C10_Witness ==
    /\ Example2500
    /\ text_chunks = <<raw_text>>
    /\ Len(text_chunks[1]) = 2500

Min(a, b) == IF a <= b THEN a ELSE b

\* the number of characters at the end of chunk a that chunk b starts with
\* (the units of an input use different letters, so text that b repeats from
\* a is text carried over from a)
Overlap(a, b) ==
    LET ks == {k \in 1..Min(Len(a), Len(b)) :
                 /\ a[Len(a) - k + 1] = b[1]
                 /\ SubSeq(b, 1, k) = SubSeq(a, Len(a) - k + 1, Len(a))}
    IN IF ks = {} THEN 0 ELSE CHOOSE k \in ks : \A j \in ks : j <= k

RemoveWhitespace(text) == SelectSeq(text, LAMBDA c : c \notin Whitespace)

\* the chunks b, c, ... that follow chunk a, each without the text it repeats
\* from its predecessor, concatenated
RECURSIVE NonOverlappingAfter(_, _)
NonOverlappingAfter(a, rest) ==
    IF rest = <<>> THEN <<>>
    ELSE LET b == Head(rest)
         IN SubSeq(b, Overlap(a, b) + 1, Len(b)) \o NonOverlappingAfter(b, Tail(rest))

\* the concatenation of the non-overlapping portions of the chunks, in order
Rebuilt(chunks) ==
    IF chunks = <<>> THEN <<>>
    ELSE Head(chunks) \o NonOverlappingAfter(Head(chunks), Tail(chunks))

\* C12 as stated: for a non-empty input the non-overlapping portions of the
\* chunks, concatenated in order, are the input itself, separators and
\* whitespace included.
C12_ChunksRebuildInput ==
    (pc = "chunked" /\ raw_text # <<>>) => Rebuilt(text_chunks) = raw_text

\* C12 amended: the non-overlapping portions, concatenated in order, are the
\* input up to whitespace: no other character is lost, added or moved.
C12_ChunksRebuildInputUpToWhitespace ==
    (pc = "chunked" /\ raw_text # <<>>)
      => /\ RemoveWhitespace(Rebuilt(text_chunks)) = RemoveWhitespace(raw_text)
         /\ Len(Rebuilt(text_chunks)) <= Len(raw_text)

\* two chunks whose non-overlapping portions lack a separator of the input
C12_Witness ==
    /\ pc = "chunked"
    /\ Len(text_chunks) = 2
    /\ NoSeparator(Rebuilt(text_chunks))
    /\ ~NoSeparator(raw_text)
    /\ Len(Rebuilt(text_chunks)) = Len(raw_text) - 1
    /\ RemoveWhitespace(raw_text) # <<>>

----------------------------------------------------------------------------
(* The extractor alone, on every list of up to MaxFiles uploaded files     *)

Documents == {"notes.pdf", "book.pdf", "scan.pdf", "broken.pdf"}

ExtractorInputs == UNION { [1..n -> Documents] : n \in 0..MaxFiles }

ExtractorInit ==
    /\ pdf_files \in ExtractorInputs
    /\ pc = "extractor"
    /\ raw_text = <<>>
    /\ text_chunks = <<>>
    /\ session_keys = {}
    /\ convo_chain = None
    /\ chat_history = <<>>
    /\ user_input = ""
    /\ button = FALSE
    /\ output = <<>>
    /\ engine_id = 0
    /\ retrieverCalls = 0
    /\ generationCalls = 0
    /\ lastAsk = NoAsk
    /\ asksOnEngine = 0
    /\ asksOnSubmit = 0
    /\ discarded = <<>>
    /\ pre = [keys |-> {}, convo_chain |-> None, chat_history |-> <<>>, engine_id |-> 0]
    /\ run = NewRun("open")
    /\ trace = <<>>
    /\ runs = 1

\* raw_text = get_pdf_text(pdf_files), unless PdfReader raises
Extract ==
    /\ pc = "extractor"
    /\ IF PdfReaderRaises(pdf_files)
       THEN /\ pc' = "extract_failed"
            /\ UNCHANGED raw_text
       ELSE /\ pc' = "extracted"
            /\ raw_text' = get_pdf_text(pdf_files)
    /\ UNCHANGED <<session_keys, convo_chain, chat_history, user_input, pdf_files, button,
                   text_chunks, output, engine_id, retrieverCalls, generationCalls,
                   lastAsk, asksOnEngine, asksOnSubmit, discarded, pre, run, trace, runs>>

ExtractorNext == Extract

SpecExtractor == ExtractorInit /\ [][ExtractorNext]_vars

----------------------------------------------------------------------------
(* Properties of the extractor                                             *)

\* the text of page j of the i-th uploaded file
PageText(i, j) == extract_text(Pages(pdf_files[i])[j])

\* number of characters on the first n pages of a document
RECURSIVE PagesLength(_, _)
PagesLength(pages, n) ==
    IF n = 0 THEN 0 ELSE PagesLength(pages, n - 1) + Len(extract_text(pages[n]))

\* number of characters in the first n files
RECURSIVE FilesLength(_, _)
FilesLength(files, n) ==
    IF n = 0 THEN 0
    ELSE FilesLength(files, n - 1) + PagesLength(Pages(files[n]), Len(Pages(files[n])))

\* where page j of file i starts in the extracted text
PageOffset(i, j) ==
    FilesLength(pdf_files, i - 1) + PagesLength(Pages(pdf_files[i]), j - 1)

\* C14: get_pdf_text returns the text of every page of every file, files in
\* the order given and pages in document order, nothing omitted or added; for
\* no files it returns the empty text.
C14_AllPagesInOrder ==
    pc = "extracted"
      => /\ Len(raw_text) = FilesLength(pdf_files, Len(pdf_files))
         /\ \A i \in 1..Len(pdf_files) :
              \A j \in 1..Len(Pages(pdf_files[i])) :
                 \A k \in 1..Len(PageText(i, j)) :
                    raw_text[PageOffset(i, j) + k] = PageText(i, j)[k]
         /\ (pdf_files = <<>> => raw_text = <<>>)

\* two documents of two and three pages have been extracted
C14_Witness ==
    /\ pc = "extracted"
    /\ pdf_files = <<"notes.pdf", "book.pdf">>
    /\ raw_text = <<"a", "b", "\n", "c", "d", " ", "e">>

----------------------------------------------------------------------------
(* Properties of the order of main                                         *)

----------------------------------------------------------------------------
(* Properties of the stored chat_history                                   *)

\* C16: whenever chat_history is set and the session is READY, chat_history
\* equals the memory of the current engine.
C16_HistoryEqualsEngineMemory ==
    ("chat_history" \in session_keys /\ Ready) => chat_history = Memory

\* C16 (amended): chat_history equals the memory of the current engine
\* whenever that engine has answered a question; an engine that has answered
\* none has an empty memory, while chat_history keeps what the last
\* successful ask of an earlier engine stored.
C16_HistoryEqualsMemoryOnceAsked ==
    /\ ("chat_history" \in session_keys /\ Ready /\ asksOnEngine >= 1)
          => chat_history = Memory
    /\ (Ready /\ asksOnEngine = 0) => Memory = <<>>
    /\ ("chat_history" \in session_keys /\ Ready /\ asksOnEngine = 0)
          => chat_history # <<>>

\* the second engine has answered a question and chat_history holds exactly
\* its memory, the first engine having held turns
C16_Witness ==
    /\ "chat_history" \in session_keys
    /\ Ready
    /\ engine_id = 2
    /\ discarded # <<>>
    /\ asksOnEngine >= 1
    /\ chat_history = Memory
    /\ pc = "idle"

\* the messages of history alternate, a question first and its answer next
Alternates(history) ==
    /\ Len(history) % 2 = 0
    /\ \A i \in 1..Len(history) :
          IF i % 2 = 1
          THEN history[i].type = "human" /\ history[i].content \in Questions
          ELSE history[i].type = "ai" /\ history[i].content \in Answers

\* every message of history is shown with the template of its role
LabelsByRole(history, written) ==
    /\ Len(written) = Len(history)
    /\ \A i \in 1..Len(history) :
          /\ written[i].msg = history[i].content
          /\ written[i].template
                = (IF history[i].type = "human" THEN "user" ELSE "bot")

\* C17: in every state chat_history has length 2n, n the number of successful
\* asks on the current engine, questions at even indices and answers at odd
\* ones, so that the rendering by index parity labels every message rightly.
C17_LengthTwicePerAsk ==
    /\ Len(chat_history) = 2 * asksOnEngine
    /\ Alternates(chat_history)
    /\ (pc = "init" /\ run.ask = "ok") => LabelsByRole(chat_history, output)

\* C17 (amended): chat_history has even length with questions and answers
\* alternating, a successful ask renders every message with the template of
\* its role, and the length is twice the number of successful asks on the
\* current engine once that engine has answered a question.
C17_AlternatingAndRenderedByRole ==
    /\ Alternates(chat_history)
    /\ (pc = "init" /\ run.ask = "ok")
          => /\ chat_history # <<>>
             /\ LabelsByRole(chat_history, output)
    /\ (Ready /\ asksOnEngine >= 1) => Len(chat_history) = 2 * asksOnEngine

\* a second successful ask on one engine has just rendered four messages
C17_Witness ==
    /\ pc = "init"
    /\ run.ask = "ok"
    /\ Ready
    /\ asksOnEngine = 2
    /\ Len(chat_history) = 4
    /\ Len(output) = 4

\* C18: handle_user_input never reads convo_chain before the key exists:
\* whenever a run starts with a non-empty question box, an earlier run has
\* executed the initialisation of main.
C18_ChainKeyInitialisedBeforeRead ==
    /\ (pc = "input" /\ user_input # "")
          => /\ "convo_chain" \in session_keys
             /\ runs >= 2
    /\ run.ask # "error"
    /\ \A i \in 1..Len(trace) : trace[i].ask # "error"

\* the second run of a session starts with a question in the box
C18_Witness ==
    /\ pc = "input"
    /\ user_input # ""
    /\ runs = 2
    /\ "convo_chain" \in session_keys

====
